---- MODULE Spec2Model ----
(***************************************************************************)
(* Model of the flight query server (src/flight_server/flight_server):     *)
(* the POST /query handler, the thread pool that runs run_query, the       *)
(* sqlite job registry and the S3 artifact bucket.                         *)
(*                                                                         *)
(* Strings are sequences of one-character strings, so that a job id (a     *)
(* uuid4 string, which contains "-") and a query hash (a hex digest,       *)
(* which does not) are values of one type that can be compared, as the     *)
(* code compares them in  WHERE j.job_id = ?.                              *)
(***************************************************************************)
EXTENDS Integers, Sequences, FiniteSets, Bags, TLC

\* ------------------------------------------------------------------ bounds
\* Number of POST /query requests handled in one behaviour.
MaxRequests == 3
\* FLIGHT_MAX_WORKERS the server is started with (the pool size W).
MAX_WORKERS == 2
\* Number of scans of the bucket that complete in one behaviour.
MaxScans == 3

\* ------------------------------------------------------- values and inputs
\* SQL NULL in an integer or timestamp column.
NULL == -1

\* The request bodies clients send: one text, the same text inside white
\* space, and a text that differs from it in an interior character.
SqlInputs == {<<"x", "x">>, <<" ", "x", "x", " ">>, <<"x", " ", "x">>}

\* str(uuid.uuid4()): hex groups separated by "-".
Digits == <<"1", "2", "3", "4", "5", "6", "7", "8", "9">>

\* The n-th distinct value of str(uuid.uuid4()).
Uuid(n) == <<"a", "-", Digits[n]>>

Uuids == {Uuid(n) : n \in 1..MaxRequests}

S3_BUCKET == <<"flight-cache">>

\* ---------------------------------------------------------- pure functions
RECURSIVE lstrip(_)
lstrip(s) == IF s # <<>> /\ Head(s) = " " THEN lstrip(Tail(s)) ELSE s

RECURSIVE rstrip(_)
rstrip(s) == IF s # <<>> /\ s[Len(s)] = " " THEN rstrip(SubSeq(s, 1, Len(s) - 1)) ELSE s

\* str.strip()
\* Only the leading whitespace is removed.
strip_leading_only(s) == lstrip(s)

strip(s) == rstrip(lstrip(s))

\* hashlib.sha256(query.encode()).hexdigest(): a deterministic, injective
\* rendering of the text in hex digits.
hash_query(query) == [i \in 1..Len(query) |-> IF query[i] = " " THEN "0" ELSE "1"]

\* f"{S3_BUCKET}/{hash_query(query)}.{ext}"
s3_key_for_query(query, ext) == S3_BUCKET \o <<"/">> \o hash_query(query) \o <<".", ext>>

\* The Arrow IPC stream the engine's reader for sql is written as.
ArrowStream(sql) == [result_of |-> sql]

\* ------------------------------------------------------------------- state
VARIABLES
    jobs,        \* registry table jobs, rows in insertion order
    queries,     \* registry table queries
    s3,          \* the bucket: key -> object
    queue,       \* work items submitted to the executor and not yet started
    active,      \* work items a pool thread is running, with their position
    futures,     \* outcome of the finished work items of this process
    executions,  \* bag of the SQL texts the engine has executed
    uploaded,    \* ids of the jobs whose worker has completed its upload
    clock,       \* datetime.utcnow()
    response,    \* the response to the last POST /query
    shutdown,    \* "no", or how far the lifespan's shutdown has come
    save,        \* one call of save_arrow_stream_to_s3 followed step by step
    lock,        \* the _lock of each JobRegistry object and the threads calling it
    executor,    \* the pool's _threads and _idle_semaphore
    gauges,      \* the gauges QUEUE_DEPTH and ACTIVE_THREADS
    client,      \* FlightClient.wait_for_query: where the call is and what it has seen
    discovery    \* MinIODiscoveryService: _stop_event, _thread and the caller of start/stop

vars == <<jobs, queries, s3, queue, active, futures, executions, uploaded, clock, response,
          shutdown, save, lock, executor, gauges, client, discovery>>

\* ------------------------------------------------------------ the registry
\* The jobs table is declared without its PRIMARY KEY: no id is ever taken.
JobIds_no_primary_key == {}

JobIds == {jobs[i].job_id : i \in 1..Len(jobs)}

JobRows == {jobs[i] : i \in 1..Len(jobs)}

\* SELECT j.*, q.sql FROM jobs j JOIN queries q ON j.query_hash = q.query_hash
\* WHERE j.job_id = ?   -- the set of rows found (fetchone takes the one).
\* The lookup also matches a row by its fingerprint.
get_job_or_fingerprint(job_id) ==
    UNION {{[job |-> jobs[i], sql |-> q.sql] :
                q \in {q \in queries : q.query_hash = jobs[i].query_hash}} :
           i \in {i \in 1..Len(jobs) : \/ jobs[i].job_id = job_id
                                       \/ jobs[i].query_hash = job_id}}

get_job(job_id) ==
    UNION {{[job |-> jobs[i], sql |-> q.sql] :
                q \in {q \in queries : q.query_hash = jobs[i].query_hash}} :
           i \in {i \in 1..Len(jobs) : jobs[i].job_id = job_id}}

\* INSERT OR IGNORE INTO queries ...; INSERT INTO jobs ... 'pending' ...
\* The SQL text is never stored.
insert_job_queries_skipped(sql, now) == queries

insert_job_queries(sql, now) ==
    IF \E q \in queries : q.query_hash = hash_query(sql)
    THEN queries
    ELSE queries \cup {[query_hash |-> hash_query(sql), sql |-> sql, created_at |-> now]}

\* The row stores a key made from the job's id.
insert_job_jobs_key_of_id(job_id, format, sql, s3_key, now) ==
    Append(jobs, [job_id |-> job_id, query_hash |-> hash_query(sql), status |-> "pending",
                  format |-> format, created_at |-> now, completed_at |-> NULL,
                  row_count |-> NULL, file_size |-> NULL,
                  s3_key |-> S3_BUCKET \o <<"/">> \o job_id \o <<".", format>>])

insert_job_jobs(job_id, format, sql, s3_key, now) ==
    Append(jobs, [job_id |-> job_id, query_hash |-> hash_query(sql), status |-> "pending",
                  format |-> format, created_at |-> now, completed_at |-> NULL,
                  row_count |-> NULL, file_size |-> NULL, s3_key |-> s3_key])

\* The update without its WHERE clause: every row is set.
update_job_status_all_rows(job_id, status, row_count, file_size, now) ==
    [i \in 1..Len(jobs) |->
        [jobs[i] EXCEPT !.status = status, !.completed_at = now,
                        !.row_count = row_count, !.file_size = file_size]]

\* UPDATE jobs SET status = ?, completed_at = ?, row_count = ?, file_size = ?
\* WHERE job_id = ?
update_job_status(job_id, status, row_count, file_size, now) ==
    [i \in 1..Len(jobs) |->
        IF jobs[i].job_id = job_id
        THEN [jobs[i] EXCEPT !.status = status, !.completed_at = now,
                             !.row_count = row_count, !.file_size = file_size]
        ELSE jobs[i]]

\* --------------------------------------------------------------- responses
NoResponse == [code |-> 0, status |-> "", format |-> "", job_id |-> <<>>, body |-> <<>>]

Resp(code, status, format, job_id) ==
    [code |-> code, status |-> status, format |-> format, job_id |-> job_id, body |-> <<>>]

\* No call of save_arrow_stream_to_s3 is being followed.
NoSave == [pc |-> "idle", schema |-> <<>>, batches |-> <<>>, read |-> 0, stream |-> <<>>]

\* The threads of the server process: the one that runs the event loop and
\* with it every request handler, and the threads of the pool.
EventLoop == 0

PoolThreads == 1..MAX_WORKERS

Threads == {EventLoop} \cup PoolThreads

\* No JobRegistry object exists yet and no thread is calling one.
NoLock ==
    [holder |-> <<>>,
     pool   |-> <<>>,
     thread |-> [t \in Threads |-> [pc |-> "idle", registry |-> 0]]]

\* ThreadPoolExecutor(max_workers=MAX_WORKERS): no thread is started yet.
NoThreads == [threads |-> 0, idle |-> 0]

\* Gauge("flight_queue_depth"), Gauge("flight_active_threads"): a gauge is 0
\* until it is set.
NoGauges == [QUEUE_DEPTH |-> 0, ACTIVE_THREADS |-> 0]

\* No call of wait_for_query has been made.
NoClient ==
    [pc |-> "idle", job_id |-> <<>>, elapsed |-> 0, polls |-> 0, status |-> "",
     requested |-> FALSE, outcome |-> ""]

\* MinIODiscoveryService.__init__: the event is clear and there is no thread.
\* thread is where self._thread is ("none" before the first start, "dead" once
\* its target has returned); caller is where a call of stop is; started tells
\* that a start has returned and no stop has been called since.
NoDiscovery ==
    [stop_event |-> FALSE, thread |-> "none", caller |-> "idle", elapsed |-> 0,
     started |-> FALSE, last_updated |-> 0]

Init ==
    /\ jobs = <<>>
    /\ queries = {}
    /\ s3 = <<>>
    /\ queue = <<>>
    /\ active = {}
    /\ futures = {}
    /\ executions = EmptyBag
    /\ uploaded = {}
    /\ clock = 0
    /\ response = NoResponse
    /\ shutdown = "no"
    /\ discovery = NoDiscovery
    /\ client = NoClient
    /\ gauges = NoGauges
    /\ executor = NoThreads
    /\ lock = NoLock
    /\ save = NoSave

\* ------------------------------------------------------------ POST /query
\* uuid.uuid4(): a random id. Ids are interchangeable, so the values it can
\* return are taken to be the first id no job has yet, or one already used.
uuid4 == JobIds \cup {Uuid(Cardinality(JobIds) + 1)}

\* The work item is put at the head of the pool's queue.
submit_query_as_front(raw, job_id) ==
    LET sql == strip(raw)
        query_hash == hash_query(sql)
        key_arrow == s3_key_for_query(sql, "arrow")
        job == get_job(query_hash)
    IN  /\ shutdown = "no"
        /\ clock' = clock + 1
        /\ IF job # {}
           THEN \* job is a dict: job.status raises AttributeError
                /\ response' = Resp(500, "", "", <<>>)
                /\ UNCHANGED <<jobs, queries, queue, lock, executor, gauges, client, discovery>>
           ELSE IF job_id \in JobIds
                THEN \* PRIMARY KEY: IntegrityError, nothing committed
                     /\ response' = Resp(500, "", "", <<>>)
                     /\ UNCHANGED <<jobs, queries, queue, lock, executor, gauges, client, discovery>>
                ELSE /\ queries' = insert_job_queries(sql, clock')
                     /\ jobs' = insert_job_jobs(job_id, "arrow", sql, key_arrow, clock')
                     /\ queue' = <<[sql |-> sql, job_id |-> job_id]>> \o queue
                     /\ response' = Resp(200, "pending", "arrow", job_id)
        /\ UNCHANGED <<s3, active, futures, executions, uploaded, shutdown, save, lock, executor, gauges, client, discovery>>

\* submit_query when uuid.uuid4() returns job_id: an async handler with no
\* await, so it runs to its return on the event loop without another handler
\* in between.
submit_query_as(raw, job_id) ==
    LET sql == strip(raw)
        query_hash == hash_query(sql)
        key_arrow == s3_key_for_query(sql, "arrow")
        job == get_job(query_hash)
    IN  /\ shutdown = "no"
        /\ clock' = clock + 1
        /\ IF job # {}
           THEN \* job is a dict: job.status raises AttributeError
                /\ response' = Resp(500, "", "", <<>>)
                /\ UNCHANGED <<jobs, queries, queue, lock, executor, gauges, client, discovery>>
           ELSE IF job_id \in JobIds
                THEN \* PRIMARY KEY: IntegrityError, nothing committed
                     /\ response' = Resp(500, "", "", <<>>)
                     /\ UNCHANGED <<jobs, queries, queue, lock, executor, gauges, client, discovery>>
                ELSE /\ queries' = insert_job_queries(sql, clock')
                     /\ jobs' = insert_job_jobs(job_id, "arrow", sql, key_arrow, clock')
                     /\ queue' = Append(queue, [sql |-> sql, job_id |-> job_id])
                     /\ response' = Resp(200, "pending", "arrow", job_id)
        /\ UNCHANGED <<s3, active, futures, executions, uploaded, shutdown, save, lock, executor, gauges, client, discovery>>

submit_query(raw) ==
    /\ clock < MaxRequests
    /\ \E job_id \in uuid4 : submit_query_as(raw, job_id)

Submit == \E raw \in SqlInputs : submit_query(raw)

\* ----------------------------------------------------------- the executor
\* The pool starts a thread for every work item, however many are running.
StartWork_no_limit ==
    /\ queue # <<>>
    /\ active' = active \cup {[sql |-> Head(queue).sql, job_id |-> Head(queue).job_id,
                               pc |-> "execute", e |-> "none"]}
    /\ queue' = Tail(queue)
    /\ UNCHANGED <<jobs, queries, s3, futures, executions, uploaded, clock, response, shutdown, save, lock, executor, gauges, client, discovery>>

\* A free pool thread takes the oldest work item and enters run_query.
StartWork ==
    /\ queue # <<>>
    /\ Cardinality(active) < MAX_WORKERS
    /\ active' = active \cup {[sql |-> Head(queue).sql, job_id |-> Head(queue).job_id,
                               pc |-> "execute", e |-> "none"]}
    /\ queue' = Tail(queue)
    /\ UNCHANGED <<jobs, queries, s3, futures, executions, uploaded, clock, response, shutdown, save, lock, executor, gauges, client, discovery>>

Move(w, pc) == (active \ {w}) \cup {[w EXCEPT !.pc = pc]}
\* w after the statement named by e raised: control is in the except clause
\* of run_query, which holds the exception as e.
Raise(w, e) == (active \ {w}) \cup {[w EXCEPT !.pc = "except", !.e = e]}

\* conn.execute(sql); result.fetch_record_batch()
ExecuteOk(w) ==
    /\ w.pc = "execute"
    /\ executions' = executions (+) SetToBag({w.sql})
    /\ active' = Move(w, "save")
    /\ UNCHANGED <<jobs, queries, s3, queue, futures, uploaded, clock, response, shutdown, save, lock, executor, gauges, client, discovery>>

\* conn.execute(sql) raises, the exception is swallowed and run_query goes on.
ExecuteRaise_swallowed(w) ==
    /\ w.pc = "execute"
    /\ executions' = executions (+) SetToBag({w.sql})
    /\ active' = (active \ {w}) \cup {[w EXCEPT !.pc = "save", !.e = "execute"]}
    /\ UNCHANGED <<jobs, queries, s3, queue, futures, uploaded, clock, response, shutdown, save, lock, executor, gauges, client, discovery>>

\* conn.execute(sql) raises
ExecuteRaise(w) ==
    /\ w.pc = "execute"
    /\ executions' = executions (+) SetToBag({w.sql})
    /\ active' = Raise(w, "execute")
    /\ UNCHANGED <<jobs, queries, s3, queue, futures, uploaded, clock, response, shutdown, save, lock, executor, gauges, client, discovery>>

\* The stream is built and never uploaded.
save_arrow_stream_to_s3_no_upload(key, sql) == s3

\* save_arrow_stream_to_s3(S3_BUCKET, key_arrow, reader): the stream is
\* buffered whole and put with one upload_fileobj.
save_arrow_stream_to_s3(key, sql) ==
    [k \in DOMAIN s3 \cup {key} |-> IF k = key THEN ArrowStream(sql) ELSE s3[k]]

SaveOk(w) ==
    /\ w.pc = "save"
    /\ s3' = save_arrow_stream_to_s3(s3_key_for_query(w.sql, "arrow"), w.sql)
    /\ uploaded' = uploaded \cup {w.job_id}
    /\ active' = Move(w, "ready")
    /\ UNCHANGED <<jobs, queries, queue, futures, executions, clock, response, shutdown, save, lock, executor, gauges, client, discovery>>

\* A failing save that leaves what it had written so far at the key.
SaveRaise_partial_object(w) ==
    /\ w.pc = "save"
    /\ s3' = save_arrow_stream_to_s3(s3_key_for_query(w.sql, "arrow"), w.sql)
    /\ active' = Raise(w, "save")
    /\ UNCHANGED <<jobs, queries, queue, futures, executions, uploaded, clock, response, shutdown, save, lock, executor, gauges, client, discovery>>

\* reading a batch, writing the stream or the upload raises
SaveRaise(w) ==
    /\ w.pc = "save"
    /\ active' = Raise(w, "save")
    /\ UNCHANGED <<jobs, queries, s3, queue, futures, executions, uploaded, clock, response, shutdown, save, lock, executor, gauges, client, discovery>>

\* A pool that submits the work item again when it is through.
FinishReady_resubmitted(w) ==
    /\ w.pc = "ready"
    /\ jobs' = update_job_status(w.job_id, "ready", NULL, NULL, clock)
    /\ active' = active \ {w}
    /\ futures' = futures \cup {[job_id |-> w.job_id, outcome |-> "returned"]}
    /\ queue' = Append(queue, [sql |-> w.sql, job_id |-> w.job_id])
    /\ UNCHANGED <<queries, s3, executions, uploaded, clock, response, shutdown, save, lock, executor, gauges, client, discovery>>

\* registry.update_job_status(job_id, "ready"); run_query returns
FinishReady(w) ==
    /\ w.pc = "ready"
    /\ jobs' = update_job_status(w.job_id, "ready", NULL, NULL, clock)
    /\ active' = active \ {w}
    /\ futures' = futures \cup {[job_id |-> w.job_id, outcome |-> "returned"]}
    /\ UNCHANGED <<queries, s3, queue, executions, uploaded, clock, response, shutdown, save, lock, executor, gauges, client, discovery>>

\* An except branch that re-raises without recording the error.
FinishError_not_recorded(w) ==
    /\ w.pc = "except"
    /\ active' = active \ {w}
    /\ futures' = futures \cup {[job_id |-> w.job_id, outcome |-> "raised"]}
    /\ UNCHANGED <<jobs, queries, s3, queue, executions, uploaded, clock, response, shutdown, save, lock, executor, gauges, client, discovery>>

\* except: registry.update_job_status(job_id, "error"); raise e
FinishError(w) ==
    /\ w.pc = "except"
    /\ jobs' = update_job_status(w.job_id, "error", NULL, NULL, clock)
    /\ active' = active \ {w}
    /\ futures' = futures \cup {[job_id |-> w.job_id, outcome |-> "raised"]}
    /\ UNCHANGED <<queries, s3, queue, executions, uploaded, clock, response, shutdown, save, lock, executor, gauges, client, discovery>>

\* ------------------------------------------------------- GET /query/{id}
\* The ids clients ask for: every uuid, and the query hashes.
JobIdInputs == Uuids \cup {hash_query(strip(raw)) : raw \in SqlInputs}

\* get_query_status reads the registry and changes nothing: the response it
\* gives in the current state.
get_query_status(job_id) ==
    LET job == get_job(job_id)
    IN  IF job = {}
        THEN Resp(404, "", "", <<>>)
        ELSE LET r == CHOOSE r \in job : TRUE
             IN  Resp(200, r.job.status, r.job.format, job_id)

\* ------------------------------------------------ GET /query/{id}/result
\* get_query_result reads the registry and the bucket and changes nothing.
\* The artifact is read whatever the state of the job.
get_query_result_any_state(job_id) ==
    LET job == get_job(job_id)
    IN  IF job = {} THEN Resp(404, "", "", <<>>)
        ELSE LET r == CHOOSE r \in job : TRUE
                 key_arrow == s3_key_for_query(r.sql, "arrow")
             IN  IF key_arrow \notin DOMAIN s3
                 THEN Resp(500, "", "", <<>>)
                 ELSE [Resp(200, "", "", <<>>) EXCEPT !.body = <<s3[key_arrow]>>]

get_query_result(job_id) ==
    LET job == get_job(job_id)
    IN  IF job = {} THEN Resp(404, "", "", <<>>)
        ELSE LET r == CHOOSE r \in job : TRUE
                 key_arrow == s3_key_for_query(r.sql, "arrow")
             IN  IF r.job.status # "ready" THEN Resp(400, "", "", <<>>)
                 ELSE IF key_arrow \notin DOMAIN s3
                 THEN \* get_object raises NoSuchKey
                      Resp(500, "", "", <<>>)
                 ELSE [Resp(200, "", "", <<>>) EXCEPT !.body = <<s3[key_arrow]>>]

\* ------------------------------------------------ GET /query/{id}/schema
\* get_query_schema first calls registry.get_job_by_id, a method JobRegistry
\* does not have: AttributeError, which the server answers with 500,
\* whatever the id.
get_query_schema(job_id) == Resp(500, "", "", <<>>)

\* ----------------------------------------------------------------- restart
\* The server process is killed and started again: lifespan builds a new
\* ThreadPoolExecutor and a JobRegistry over the same file (CREATE TABLE IF
\* NOT EXISTS); the work items of the old process are gone.
Restart ==
    /\ queue' = <<>>
    /\ active' = {}
    /\ futures' = {}
    /\ shutdown' = "no"
    /\ UNCHANGED <<jobs, queries, s3, executions, uploaded, clock, response, save, lock, executor, gauges, client, discovery>>

Work ==
    \E w \in active :
        \/ ExecuteOk(w)
        \/ ExecuteRaise(w)
        \/ SaveOk(w)
        \/ SaveRaise(w)
        \/ FinishReady(w)
        \/ FinishError(w)

Next ==
    \/ Submit
    \/ StartWork
    \/ Work
    \/ Restart

Spec == Init /\ [][Next]_vars

\* The server without a restart, its pool threads scheduled fairly: a free
\* thread takes the next work item, and a thread inside run_query goes on.
WorkOn(job_id) ==
    \E w \in active :
        /\ w.job_id = job_id
        /\ \/ ExecuteOk(w)
           \/ ExecuteRaise(w)
           \/ SaveOk(w)
           \/ SaveRaise(w)
           \/ FinishReady(w)
           \/ FinishError(w)

LiveNext ==
    \/ Submit
    \/ StartWork
    \/ Work

LiveSpec ==
    /\ Init
    /\ [][LiveNext]_vars
    /\ WF_vars(StartWork)
    /\ \A job_id \in Uuids : WF_vars(WorkOn(job_id))

\* ---------------------------------------------------------------- overload
\* Capacity of the bounded queue the pool is specified to have; the
\* ThreadPoolExecutor of the code queues its work items without a bound.
QueueCapacity == 1
\* Requests that fill the pool and its queue, and one more.
MaxBurst == MAX_WORKERS + QueueCapacity + 1

BurstSubmit ==
    /\ clock < MaxBurst
    /\ \E raw \in SqlInputs : \E job_id \in uuid4 : submit_query_as(raw, job_id)

\* A burst of requests for long-running SQL: the pool threads take work
\* items and none of them returns from conn.execute while the burst lasts.
OverloadNext ==
    \/ BurstSubmit
    \/ StartWork

OverloadSpec == Init /\ [][OverloadNext]_vars

\* ------------------------------------------------------- the queries table
\* INSERT OR REPLACE: the row of the fingerprint is written anew.
insert_query_replace(sql, now) ==
    {q \in queries : q.query_hash # hash_query(sql)}
        \cup {[query_hash |-> hash_query(sql), sql |-> sql, created_at |-> now]}

\* JobRegistry.insert_query: the queries table after the call; a row is
\* inserted only if the SELECT finds none with the fingerprint.
insert_query(sql, now) ==
    IF \E q \in queries : q.query_hash = hash_query(sql) THEN queries
    ELSE queries \cup {[query_hash |-> hash_query(sql), sql |-> sql, created_at |-> now]}

\* A caller of the registry inserts a query; response holds the fingerprint
\* the call returns.
InsertQuery(sql) ==
    /\ clock < MaxRequests
    /\ clock' = clock + 1
    /\ queries' = insert_query(sql, clock')
    /\ response' = [NoResponse EXCEPT !.body = <<hash_query(sql)>>]
    /\ UNCHANGED <<jobs, s3, queue, active, futures, executions, uploaded, shutdown, save, lock, executor, gauges, client, discovery>>

\* The registry used by submits and by direct inserts of queries.
RegistryNext ==
    \/ Submit
    \/ \E sql \in SqlInputs : InsertQuery(sql)

RegistrySpec == Init /\ [][RegistryNext]_vars

\* ------------------------------------------------- the Arrow IPC stream
\* Largest number of record batches the engine's reader yields.
MaxBatches == 3
\* Schemas (ordered column names) and record batches (sequences of rows) of
\* the results the engine hands to save_arrow_stream_to_s3.
Schemas == {<<"a">>, <<"a", "b">>}
RecordBatches == {<<1>>, <<2>>, <<1, 2>>}
RECURSIVE SeqsUpTo(_, _)
SeqsUpTo(S, n) ==
    IF n = 0 THEN {<<>>}
    ELSE LET shorter == SeqsUpTo(S, n - 1)
         IN  shorter \cup {Append(q, x) : q \in {r \in shorter : Len(r) = n - 1}, x \in S}
\* The key the followed call is given.
StreamKey == s3_key_for_query(<<"x", "x">>, "arrow")

\* The messages of an IPC stream.
SchemaMessage(schema) == [type |-> "schema", columns |-> schema, rows |-> <<>>]
BatchMessage(batch) == [type |-> "batch", columns |-> <<>>, rows |-> batch]
EndOfStream == [type |-> "eos", columns |-> <<>>, rows |-> <<>>]

\* save_arrow_stream_to_s3(S3_BUCKET, StreamKey, reader) is called with a
\* reader over any result; nothing else runs.
StreamInit ==
    /\ jobs = <<>>
    /\ queries = {}
    /\ s3 = <<>>
    /\ queue = <<>>
    /\ active = {}
    /\ futures = {}
    /\ executions = EmptyBag
    /\ uploaded = {}
    /\ clock = 0
    /\ response = NoResponse
    /\ shutdown = "no"
    /\ discovery = NoDiscovery
    /\ client = NoClient
    /\ gauges = NoGauges
    /\ executor = NoThreads
    /\ lock = NoLock
    /\ \E schema \in Schemas, batches \in SeqsUpTo(RecordBatches, MaxBatches) :
          save = [pc |-> "new_stream", schema |-> schema, batches |-> batches,
                  read |-> 0, stream |-> <<>>]

\* pa.ipc.new_stream(stream, reader.schema): the stream begins with the schema.
NewStream ==
    /\ save.pc = "new_stream"
    /\ save' = [save EXCEPT !.pc = "loop", !.stream = <<SchemaMessage(save.schema)>>]
    /\ UNCHANGED <<jobs, queries, s3, queue, active, futures, executions, uploaded, clock,
                   response, shutdown, lock, executor, gauges, client, discovery>>

\* The batch read is not written.
WriteBatch_dropped ==
    /\ save.pc = "loop"
    /\ save.read < Len(save.batches)
    /\ save' = [save EXCEPT !.read = save.read + 1]
    /\ UNCHANGED <<jobs, queries, s3, queue, active, futures, executions, uploaded, clock,
                   response, shutdown, lock, executor, gauges, client, discovery>>

\* batch = reader.read_next_batch(); writer.write_batch(batch): the batch is
\* appended to the in-memory BufferOutputStream.
WriteBatch ==
    /\ save.pc = "loop"
    /\ save.read < Len(save.batches)
    /\ save' = [save EXCEPT !.read = save.read + 1,
                            !.stream = Append(save.stream, BatchMessage(save.batches[save.read + 1]))]
    /\ UNCHANGED <<jobs, queries, s3, queue, active, futures, executions, uploaded, clock,
                   response, shutdown, lock, executor, gauges, client, discovery>>

\* read_next_batch raises StopIteration: break; leaving the with block closes
\* the writer, which ends the stream.
StopIteration ==
    /\ save.pc = "loop"
    /\ save.read = Len(save.batches)
    /\ save' = [save EXCEPT !.pc = "upload", !.stream = Append(save.stream, EndOfStream)]
    /\ UNCHANGED <<jobs, queries, s3, queue, active, futures, executions, uploaded, clock,
                   response, shutdown, lock, executor, gauges, client, discovery>>

\* buffer = stream.getvalue(); s3.upload_fileobj(BytesIO(buffer.to_pybytes()),
\* bucket, key): the whole buffer is put at the key.
Upload ==
    /\ save.pc = "upload"
    /\ s3' = [k \in DOMAIN s3 \cup {StreamKey} |-> IF k = StreamKey THEN save.stream ELSE s3[k]]
    /\ save' = [save EXCEPT !.pc = "done"]
    /\ UNCHANGED <<jobs, queries, queue, active, futures, executions, uploaded, clock,
                   response, shutdown, lock, executor, gauges, client, discovery>>

\* Reading a batch, writing it or the upload raises: the call ends with the
\* exception and the buffer is dropped.
SaveStreamRaise ==
    /\ save.pc \in {"loop", "upload"}
    /\ save' = [save EXCEPT !.pc = "raised", !.stream = <<>>]
    /\ UNCHANGED <<jobs, queries, s3, queue, active, futures, executions, uploaded, clock,
                   response, shutdown, lock, executor, gauges, client, discovery>>

StreamNext ==
    \/ NewStream
    \/ WriteBatch
    \/ StopIteration
    \/ Upload
    \/ SaveStreamRaise

StreamSpec == StreamInit /\ [][StreamNext]_vars

\* The rows of the batch messages up to the end of the stream, batch by batch.
RECURSIVE read_batches(_)
read_batches(messages) ==
    IF messages = <<>> \/ Head(messages).type # "batch" THEN <<>>
    ELSE <<Head(messages).rows>> \o read_batches(Tail(messages))

RECURSIVE Concat(_)
Concat(seqs) == IF seqs = <<>> THEN <<>> ELSE Head(seqs) \o Concat(Tail(seqs))

\* stream_arrow_from_s3(bucket, key): pa_ipc.open_stream(body) reads the
\* schema message, read_all() the batches up to the end of the stream and
\* makes one table of them.
stream_arrow_from_s3(key) ==
    LET body == s3[key]
    IN  [schema |-> Head(body).columns, rows |-> Concat(read_batches(Tail(body)))]

\* -------------------------------------------- the client reads a result
\* The IPC file format is the stream format between two magic strings,
\* followed by a footer.
Magic == [type |-> "magic", columns |-> <<>>, rows |-> <<>>]

\* pa.ipc.open_file(source): the source has to begin and end with the magic
\* string, otherwise ArrowInvalid ("Not an Arrow file"); read_all() makes
\* one table of the batches between them.
open_file(source) ==
    IF Len(source) >= 3 /\ source[1] = Magic /\ source[Len(source)] = Magic
    THEN LET messages == SubSeq(source, 2, Len(source) - 1)
         IN  [raised |-> "", schema |-> Head(messages).columns,
              rows |-> Concat(read_batches(Tail(messages)))]
    ELSE [raised |-> "ArrowInvalid", schema |-> <<>>, rows |-> <<>>]

\* FlightClient.get_query_result, from the body of the 200 response on: the
\* chunks are collected in a BytesIO and read with open_file.
read_result(body) == open_file(body)

\* ---------------------------------------------------------------- shutdown
\* The server is asked to stop: it serves no more requests and lifespan
\* reaches executor.shutdown(), which blocks until the pool has run every
\* work item, the queued ones included.
Shutdown ==
    /\ shutdown = "no"
    /\ shutdown' = "draining"
    /\ UNCHANGED <<jobs, queries, s3, queue, active, futures, executions, uploaded, clock, response, save, lock, executor, gauges, client, discovery>>

\* Time passes while executor.shutdown() blocks: it takes no timeout, and
\* whatever grace period one allows is over before the pool is empty.
GraceElapsed ==
    /\ shutdown = "draining"
    /\ queue # <<>> \/ active # {}
    /\ shutdown' = "overdue"
    /\ UNCHANGED <<jobs, queries, s3, queue, active, futures, executions, uploaded, clock, response, save, lock, executor, gauges, client, discovery>>

\* executor.shutdown() returns when no work item is left; registry.close()
\* does nothing and the process ends.
Exit ==
    /\ shutdown \in {"draining", "overdue"}
    /\ queue = <<>>
    /\ active = {}
    /\ shutdown' = "exited"
    /\ UNCHANGED <<jobs, queries, s3, queue, active, futures, executions, uploaded, clock, response, save, lock, executor, gauges, client, discovery>>

ShutdownNext ==
    \/ Submit
    \/ StartWork
    \/ Work
    \/ Shutdown
    \/ GraceElapsed
    \/ Exit

ShutdownSpec == Init /\ [][ShutdownNext]_vars

\* ------------------------------------------------- the registry's mutex
\* lock.holder[r] is the thread that holds self._lock of the r-th JobRegistry
\* object, or NULL; lock.thread[t] is where thread t is and which object it
\* calls; lock.pool holds the registry argument of the work items that wait
\* in the executor.
\*
\* Every handler declares  registry: JobRegistry = Depends() : the framework
\* calls JobRegistry() for each request, and __init__ gives the new object a
\* threading.Lock() of its own.
Depends ==
    /\ lock.thread[EventLoop].pc = "idle"
    /\ Len(lock.holder) < MaxRequests
    /\ lock' = [lock EXCEPT !.holder = Append(@, NULL),
                            !.thread[EventLoop] = [pc |-> "call", registry |-> Len(lock.holder) + 1]]
    /\ UNCHANGED <<jobs, queries, s3, queue, active, futures, executions, uploaded, clock, response, shutdown, save, executor, gauges, client, discovery>>

\* with self._lock:  -- blocks until the lock of this object is free.
Acquire(t) ==
    /\ lock.thread[t].pc = "call"
    /\ lock.holder[lock.thread[t].registry] = NULL
    /\ lock' = [lock EXCEPT !.holder[lock.thread[t].registry] = t,
                            !.thread[t].pc = "inside"]
    /\ UNCHANGED <<jobs, queries, s3, queue, active, futures, executions, uploaded, clock, response, shutdown, save, executor, gauges, client, discovery>>

\* The end of the with block, after conn.commit() or fetchone().
Release(t) ==
    /\ lock.thread[t].pc = "inside"
    /\ lock' = [lock EXCEPT !.holder[lock.thread[t].registry] = NULL,
                            !.thread[t].pc = "after"]
    /\ UNCHANGED <<jobs, queries, s3, queue, active, futures, executions, uploaded, clock, response, shutdown, save, executor, gauges, client, discovery>>

\* The handler goes on to its next registry call: _init_schema, then
\* get_job, then insert_job.
NextCall ==
    /\ lock.thread[EventLoop].pc = "after"
    /\ lock' = [lock EXCEPT !.thread[EventLoop].pc = "call"]
    /\ UNCHANGED <<jobs, queries, s3, queue, active, futures, executions, uploaded, clock, response, shutdown, save, executor, gauges, client, discovery>>

\* loop.run_in_executor(executor, run_query, sql, job_id, registry): the work
\* item carries the registry object of its request; the handler returns.
run_in_executor ==
    /\ lock.thread[EventLoop].pc = "after"
    /\ lock' = [lock EXCEPT !.pool = Append(@, lock.thread[EventLoop].registry),
                            !.thread[EventLoop] = [pc |-> "idle", registry |-> 0]]
    /\ UNCHANGED <<jobs, queries, s3, queue, active, futures, executions, uploaded, clock, response, shutdown, save, executor, gauges, client, discovery>>

\* A GET handler returns after its get_job.
Return ==
    /\ lock.thread[EventLoop].pc = "after"
    /\ lock' = [lock EXCEPT !.thread[EventLoop] = [pc |-> "idle", registry |-> 0]]
    /\ UNCHANGED <<jobs, queries, s3, queue, active, futures, executions, uploaded, clock, response, shutdown, save, executor, gauges, client, discovery>>

\* A free pool thread starts run_query and comes to its update_job_status.
run_query(t) ==
    /\ t \in PoolThreads
    /\ lock.thread[t].pc = "idle"
    /\ lock.pool # <<>>
    /\ lock' = [lock EXCEPT !.pool = Tail(@),
                            !.thread[t] = [pc |-> "call", registry |-> Head(lock.pool)]]
    /\ UNCHANGED <<jobs, queries, s3, queue, active, futures, executions, uploaded, clock, response, shutdown, save, executor, gauges, client, discovery>>

\* run_query ends after update_job_status.
WorkItemDone(t) ==
    /\ t \in PoolThreads
    /\ lock.thread[t].pc = "after"
    /\ lock' = [lock EXCEPT !.thread[t] = [pc |-> "idle", registry |-> 0]]
    /\ UNCHANGED <<jobs, queries, s3, queue, active, futures, executions, uploaded, clock, response, shutdown, save, executor, gauges, client, discovery>>

LockNext ==
    \/ Depends
    \/ \E t \in Threads : Acquire(t)
    \/ \E t \in Threads : Release(t)
    \/ NextCall
    \/ run_in_executor
    \/ Return
    \/ \E t \in PoolThreads : run_query(t)
    \/ \E t \in PoolThreads : WorkItemDone(t)

LockSpec == Init /\ [][LockNext]_vars

\* ------------------------------------------- cancellation of a handler
\* A task is cancelled where it awaits. The body of submit_query has no
\* await: from req.sql.strip() to its return it runs in one piece, and the
\* future run_in_executor returns is not kept. A cancellation therefore
\* falls before the body has started or after it has returned, and what it
\* takes away is the response.
\*
\* The handler with a suspension point between insert_job and
\* run_in_executor, cancelled there.
Cancel_before_run_in_executor ==
    /\ clock < MaxRequests
    /\ shutdown = "no"
    /\ \E raw \in SqlInputs, job_id \in uuid4 \ JobIds :
          LET sql == strip(raw)
          IN  /\ clock' = clock + 1
              /\ queries' = insert_job_queries(sql, clock')
              /\ jobs' = insert_job_jobs(job_id, "arrow", sql, s3_key_for_query(sql, "arrow"), clock')
    /\ response' = NoResponse
    /\ UNCHANGED <<s3, queue, active, futures, executions, uploaded, shutdown, save, lock, executor, gauges, client, discovery>>

Cancel ==
    /\ response # NoResponse
    /\ response' = NoResponse
    /\ UNCHANGED <<jobs, queries, s3, queue, active, futures, executions, uploaded, clock, shutdown, save, lock, executor, gauges, client, discovery>>

CancelNext ==
    \/ Submit
    \/ Cancel
    \/ StartWork
    \/ Work

\* No restart, the pool threads scheduled fairly.
CancelSpec ==
    /\ Init
    /\ [][CancelNext]_vars
    /\ WF_vars(StartWork)
    /\ \A job_id \in Uuids : WF_vars(WorkOn(job_id))

\* ------------------------------------------------------------ the gauges
\* executor.threads is len(executor._threads), executor.idle the value of
\* executor._idle_semaphore.
\*
\* executor.submit calls _adjust_thread_count(): no new thread when an idle
\* one can be claimed, otherwise one more thread up to max_workers. A thread
\* stays in _threads for as long as the executor lives.
adjust_thread_count(ex) ==
    IF ex.idle > 0 THEN [ex EXCEPT !.idle = @ - 1]
    ELSE IF ex.threads < MAX_WORKERS THEN [ex EXCEPT !.threads = @ + 1]
    ELSE ex

\* The tail of PrometheusMiddleware.dispatch, after call_next has returned.
set_gauges(work_queue, ex) ==
    [QUEUE_DEPTH |-> Len(work_queue), ACTIVE_THREADS |-> ex.threads]

\* POST /query through the middleware: the handler inserts the job and
\* submits the work item, then dispatch sets the gauges.
dispatch_submit(raw) ==
    /\ clock < MaxRequests
    /\ shutdown = "no"
    /\ \E job_id \in uuid4 \ JobIds :
          LET sql == strip(raw)
          IN  /\ clock' = clock + 1
              /\ queries' = insert_job_queries(sql, clock')
              /\ jobs' = insert_job_jobs(job_id, "arrow", sql, s3_key_for_query(sql, "arrow"), clock')
              /\ queue' = Append(queue, [sql |-> sql, job_id |-> job_id])
              /\ response' = Resp(200, "pending", "arrow", job_id)
    /\ executor' = adjust_thread_count(executor)
    /\ gauges' = set_gauges(queue', executor')
    /\ UNCHANGED <<s3, active, futures, executions, uploaded, shutdown, save, lock, client, discovery>>

\* GET /query/{job_id} through the middleware: the handler changes nothing,
\* dispatch sets the gauges.
dispatch_status ==
    /\ shutdown = "no"
    /\ gauges' = set_gauges(queue, executor)
    /\ UNCHANGED <<jobs, queries, s3, queue, active, futures, executions, uploaded, clock, response, shutdown, save, lock, executor, client, discovery>>

\* _worker: a thread that runs no work item gets the oldest from the queue.
work_queue_get ==
    /\ queue # <<>>
    /\ Cardinality(active) < executor.threads
    /\ active' = active \cup {[sql |-> Head(queue).sql, job_id |-> Head(queue).job_id,
                               pc |-> "execute", e |-> "none"]}
    /\ queue' = Tail(queue)
    /\ UNCHANGED <<jobs, queries, s3, futures, executions, uploaded, clock, response, shutdown, save, lock, executor, gauges, client, discovery>>

\* _worker: work_item.run() is over, run_query having returned or raised
\* after its update_job_status; the thread releases _idle_semaphore and
\* goes back to the queue.
work_item_run(w) ==
    /\ w.pc \in {"ready", "except"}
    /\ jobs' = update_job_status(w.job_id, IF w.pc = "ready" THEN "ready" ELSE "error", NULL, NULL, clock)
    /\ active' = active \ {w}
    /\ futures' = futures \cup {[job_id |-> w.job_id,
                                 outcome |-> IF w.pc = "ready" THEN "returned" ELSE "raised"]}
    /\ executor' = [executor EXCEPT !.idle = @ + 1]
    /\ UNCHANGED <<queries, s3, queue, executions, uploaded, clock, response, shutdown, save, lock, gauges, client, discovery>>

GaugeNext ==
    \/ \E raw \in SqlInputs : dispatch_submit(raw)
    \/ dispatch_status
    \/ work_queue_get
    \/ \E w \in active : ExecuteOk(w)
    \/ \E w \in active : ExecuteRaise(w)
    \/ \E w \in active : SaveOk(w)
    \/ \E w \in active : SaveRaise(w)
    \/ \E w \in active : work_item_run(w)

GaugeSpec == Init /\ [][GaugeNext]_vars

\* ------------------------------------------------- the GET handlers at work
\* GET /query/{job_id}
GetStatus(job_id) ==
    /\ shutdown = "no"
    /\ response' = get_query_status(job_id)
    /\ UNCHANGED <<jobs, queries, s3, queue, active, futures, executions, uploaded, clock, shutdown, save, lock, executor, gauges, client, discovery>>

\* GET /query/{job_id}/result, the bucket answering.
GetResult(job_id) ==
    /\ shutdown = "no"
    /\ response' = get_query_result(job_id)
    /\ UNCHANGED <<jobs, queries, s3, queue, active, futures, executions, uploaded, clock, shutdown, save, lock, executor, gauges, client, discovery>>

\* A result handler that records a failed read in the job's row.
GetResultRaise_recorded(job_id) ==
    /\ shutdown = "no"
    /\ \E r \in get_job(job_id) : r.job.status = "ready"
    /\ response' = Resp(500, "", "", <<>>)
    /\ jobs' = update_job_status(job_id, "error", NULL, NULL, clock)
    /\ UNCHANGED <<queries, s3, queue, active, futures, executions, uploaded, clock, shutdown, save, lock, executor, gauges, client, discovery>>

\* GET /query/{job_id}/result of a ready job, s3_client.get_object raising
\* (the bucket unreachable, the object gone): the handler catches nothing
\* and the server answers 500.
GetResultRaise(job_id) ==
    /\ shutdown = "no"
    /\ \E r \in get_job(job_id) : r.job.status = "ready"
    /\ response' = Resp(500, "", "", <<>>)
    /\ UNCHANGED <<jobs, queries, s3, queue, active, futures, executions, uploaded, clock, shutdown, save, lock, executor, gauges, client, discovery>>

\* Number of POST /query requests handled next to the GET requests.
MaxReadRequests == 2

ReadSubmit == clock < MaxReadRequests /\ Submit

ReadNext ==
    \/ ReadSubmit
    \/ StartWork
    \/ Work
    \/ \E job_id \in JobIdInputs : GetStatus(job_id)
    \/ \E job_id \in JobIdInputs : GetResult(job_id)
    \/ \E job_id \in JobIdInputs : GetResultRaise(job_id)

ReadSpec == Init /\ [][ReadNext]_vars

\* -------------------------------------------------- the client waits
\* The timeout argument of wait_for_query, in seconds.
Timeout == 2
\* Number of POST /query requests the server handles next to the client.
MaxClientRequests == 1

ClientSubmit == clock < MaxClientRequests /\ Submit

\* wait_for_query(job_id, timeout) is called, with the id a submit has
\* returned or with any other: start_time = time.time().
wait_for_query(job_id) ==
    /\ client.pc = "idle"
    /\ client' = [NoClient EXCEPT !.pc = "poll", !.job_id = job_id]
    /\ UNCHANGED <<jobs, queries, s3, queue, active, futures, executions, uploaded, clock, response, shutdown, save, lock, executor, gauges, discovery>>

\* status = self.get_query_status(job_id), raise_for_status() included, and
\* the two tests of status.status.
Poll ==
    /\ client.pc = "poll"
    /\ LET r == get_query_status(client.job_id)
       IN  client' =
             IF r.code # 200
             THEN [client EXCEPT !.pc = "done", !.polls = @ + 1, !.outcome = "HTTPError"]
             ELSE IF r.status = "ready"
             THEN [client EXCEPT !.pc = "result", !.polls = @ + 1, !.status = r.status]
             ELSE IF r.status = "error"
             THEN [client EXCEPT !.pc = "done", !.polls = @ + 1, !.status = r.status,
                                 !.outcome = "Exception"]
             ELSE [client EXCEPT !.pc = "check", !.polls = @ + 1, !.status = r.status]
    /\ UNCHANGED <<jobs, queries, s3, queue, active, futures, executions, uploaded, clock, response, shutdown, save, lock, executor, gauges, discovery>>

\* return self.get_query_result(job_id): the artifact is an IPC stream, which
\* open_file refuses.
Result ==
    /\ client.pc = "result"
    /\ LET r == get_query_result(client.job_id)
       IN  client' = [client EXCEPT !.pc = "done", !.requested = TRUE,
                                    !.outcome = IF r.code # 200 THEN "HTTPError"
                                                ELSE "ArrowInvalid"]
    /\ UNCHANGED <<jobs, queries, s3, queue, active, futures, executions, uploaded, clock, response, shutdown, save, lock, executor, gauges, discovery>>

\* A loop without the test of the elapsed time.
CheckTimeout_never ==
    /\ client.pc = "check"
    /\ client' = [client EXCEPT !.pc = "sleep"]
    /\ UNCHANGED <<jobs, queries, s3, queue, active, futures, executions, uploaded, clock, response, shutdown, save, lock, executor, gauges, discovery>>

\* if time.time() - start_time > timeout: raise TimeoutError
CheckTimeout ==
    /\ client.pc = "check"
    /\ client' = IF client.elapsed > Timeout
                 THEN [client EXCEPT !.pc = "done", !.outcome = "TimeoutError"]
                 ELSE [client EXCEPT !.pc = "sleep"]
    /\ UNCHANGED <<jobs, queries, s3, queue, active, futures, executions, uploaded, clock, response, shutdown, save, lock, executor, gauges, discovery>>

\* time.sleep(1); the time is followed until it is past the timeout.
Sleep ==
    /\ client.pc = "sleep"
    /\ client' = [client EXCEPT !.pc = "poll",
                                !.elapsed = IF @ > Timeout THEN @ ELSE @ + 1]
    /\ UNCHANGED <<jobs, queries, s3, queue, active, futures, executions, uploaded, clock, response, shutdown, save, lock, executor, gauges, discovery>>

\* Time also passes while the client waits for a response.
Tick ==
    /\ client.pc \in {"poll", "check", "sleep", "result"}
    /\ client.elapsed <= Timeout
    /\ client' = [client EXCEPT !.elapsed = @ + 1]
    /\ UNCHANGED <<jobs, queries, s3, queue, active, futures, executions, uploaded, clock, response, shutdown, save, lock, executor, gauges, discovery>>

ClientStep ==
    \/ Poll
    \/ Result
    \/ CheckTimeout
    \/ Sleep

ClientNext ==
    \/ ClientSubmit
    \/ StartWork
    \/ Work
    \/ \E job_id \in Uuids : wait_for_query(job_id)
    \/ ClientStep
    \/ Tick

\* The client goes on; nothing is assumed of the server.
ClientSpec == Init /\ [][ClientNext]_vars /\ WF_vars(ClientStep)

\* ------------------------------------------------ the file discovery service
\* self._thread.join(timeout=5), in seconds.
JoinTimeout == 5

\* self._thread and self._thread.is_alive()
is_alive == discovery.thread \in {"test", "scan", "wait"}

\* start(): returns at once when the thread is alive, and otherwise clears the
\* event and starts a new thread on _run_discovery.
start ==
    /\ discovery.caller = "idle"
    /\ discovery' =
          IF is_alive
          THEN [discovery EXCEPT !.started = TRUE]
          ELSE [discovery EXCEPT !.stop_event = FALSE, !.thread = "test",
                                 !.started = TRUE]
    /\ UNCHANGED <<jobs, queries, s3, queue, active, futures, executions, uploaded, clock,
                   response, shutdown, save, lock, executor, gauges, client>>

\* stop(): returns at once when no thread is alive, and otherwise sets the
\* event and joins the thread.
stop ==
    /\ discovery.caller = "idle"
    /\ discovery' =
          IF ~is_alive
          THEN [discovery EXCEPT !.started = FALSE]
          ELSE [discovery EXCEPT !.stop_event = TRUE, !.caller = "join",
                                 !.elapsed = 0, !.started = FALSE]
    /\ UNCHANGED <<jobs, queries, s3, queue, active, futures, executions, uploaded, clock,
                   response, shutdown, save, lock, executor, gauges, client>>

\* A second of the join passes while the thread is alive.
JoinTick ==
    /\ discovery.caller = "join"
    /\ is_alive
    /\ discovery.elapsed < JoinTimeout
    /\ discovery' = [discovery EXCEPT !.elapsed = @ + 1]
    /\ UNCHANGED <<jobs, queries, s3, queue, active, futures, executions, uploaded, clock,
                   response, shutdown, save, lock, executor, gauges, client>>

\* join returns: the thread has ended, or the timeout has elapsed; stop then
\* logs and returns whichever it was.
JoinReturn ==
    /\ discovery.caller = "join"
    /\ \/ ~is_alive
       \/ discovery.elapsed = JoinTimeout
    /\ discovery' = [discovery EXCEPT !.caller = "idle", !.elapsed = 0]
    /\ UNCHANGED <<jobs, queries, s3, queue, active, futures, executions, uploaded, clock,
                   response, shutdown, save, lock, executor, gauges, client>>

\* while not self._stop_event.is_set(): the target returns when the event is set.
LoopTest ==
    /\ discovery.thread = "test"
    /\ discovery' = [discovery EXCEPT
                        !.thread = IF discovery.stop_event THEN "dead" ELSE "scan"]
    /\ UNCHANGED <<jobs, queries, s3, queue, active, futures, executions, uploaded, clock,
                   response, shutdown, save, lock, executor, gauges, client>>

\* scan_and_update() returns: last_updated is set.
scan_and_update ==
    /\ discovery.thread = "scan"
    /\ discovery.last_updated < MaxScans
    /\ discovery' = [discovery EXCEPT !.thread = "wait", !.last_updated = @ + 1]
    /\ UNCHANGED <<jobs, queries, s3, queue, active, futures, executions, uploaded, clock,
                   response, shutdown, save, lock, executor, gauges, client>>

\* scan_and_update() raises: the loop logs the exception and goes on.
ScanRaise ==
    /\ discovery.thread = "scan"
    /\ discovery' = [discovery EXCEPT !.thread = "wait"]
    /\ UNCHANGED <<jobs, queries, s3, queue, active, futures, executions, uploaded, clock,
                   response, shutdown, save, lock, executor, gauges, client>>

\* self._stop_event.wait(self.scan_interval) returns, the event set or the
\* interval over.
Wait ==
    /\ discovery.thread = "wait"
    /\ discovery' = [discovery EXCEPT !.thread = "test"]
    /\ UNCHANGED <<jobs, queries, s3, queue, active, futures, executions, uploaded, clock,
                   response, shutdown, save, lock, executor, gauges, client>>

run_discovery == LoopTest \/ scan_and_update \/ ScanRaise \/ Wait

DiscoveryNext == start \/ stop \/ JoinTick \/ JoinReturn \/ run_discovery

DiscoverySpec == Init /\ [][DiscoveryNext]_vars

\* ------------------------------------------------------------- properties
IsActive(j) == j.status \in {"pending", "running"}

IsTerminal(j) == j.status \in {"ready", "error"}

JobsOf(query_hash) == {j \in JobRows : j.query_hash = query_hash}

\* C1: for every fingerprint, in every reachable state, at most one job with
\* that fingerprint is pending or running.
C1_AtMostOneActiveJobPerFingerprint ==
    \A i, k \in 1..Len(jobs) :
        (/\ jobs[i].query_hash = jobs[k].query_hash
         /\ IsActive(jobs[i])
         /\ IsActive(jobs[k])) => i = k

\* C2: a submit made while a job of the same fingerprint is pending or
\* running creates no job and returns the job_id of that job.
C2_SubmitJoinsActiveJob ==
    [][\A raw \in SqlInputs :
        (/\ submit_query(raw)
         /\ \E j \in JobsOf(hash_query(strip(raw))) : IsActive(j))
        => (/\ jobs' = jobs
            /\ \E j \in JobsOf(hash_query(strip(raw))) :
                   IsActive(j) /\ response'.job_id = j.job_id)]_vars

\* C3: a submit made while some job of the same fingerprint is ready returns
\* status ready with that job's job_id, inserts no job row and enqueues no
\* work item.
C3_SubmitReturnsReadyJob ==
    [][\A raw \in SqlInputs :
        (/\ submit_query(raw)
         /\ \E j \in JobsOf(hash_query(strip(raw))) : j.status = "ready")
        => (/\ response'.status = "ready"
            /\ \E j \in JobsOf(hash_query(strip(raw))) :
                   j.status = "ready" /\ response'.job_id = j.job_id
            /\ jobs' = jobs
            /\ queue' = queue)]_vars

\* C4: when more submissions of one SQL text than the pool has workers have
\* all finished without an execution error, the engine has executed that
\* text exactly once.
C4_OneExecutionPerSql ==
    \A q \in queries :
        (/\ Cardinality(JobsOf(q.query_hash)) > MAX_WORKERS
         /\ \A j \in JobsOf(q.query_hash) : j.status = "ready")
        => CopiesIn(q.sql, executions) = 1

\* C5: whenever a job is ready an object exists at its artifact key, and
\* get_query_result for it answers 200 with that object.
C5_ReadyJobHasArtifact ==
    \A j \in JobRows :
        j.status = "ready" =>
            /\ j.s3_key \in DOMAIN s3
            /\ get_query_status(j.job_id).status = "ready"
            /\ get_query_result(j.job_id).code = 200
            /\ get_query_result(j.job_id).body = <<s3[j.s3_key]>>

C5_Witness == \E j \in JobRows : j.status = "ready" /\ j.s3_key \in DOMAIN s3

\* C6 as stated: an object exists at an artifact key only if some job of
\* that fingerprint is ready.
C6_ArtifactOnlyIfReady ==
    \A key \in DOMAIN s3 : \E j \in JobRows : j.s3_key = key /\ j.status = "ready"

\* C6 amended: an object exists at an artifact key only if the worker of some
\* job of that fingerprint has completed its upload to that key (the job is
\* marked ready only after the upload).
C6_ArtifactOnlyIfUploaded ==
    \A key \in DOMAIN s3 :
        \E j \in JobRows :
            /\ j.s3_key = key
            /\ j.job_id \in uploaded
            /\ s3[key] = ArrowStream((CHOOSE r \in get_job(j.job_id) : TRUE).sql)

C6_Witness ==
    \E key \in DOMAIN s3 : \A j \in JobRows : j.s3_key = key => j.status # "ready"

\* C7: a job whose state is ready or error keeps that state in every later
\* step.
C7_TerminalStateIsFinal ==
    [][\A i \in 1..Len(jobs) :
        IsTerminal(jobs[i]) => (Len(jobs') >= i /\ jobs'[i].status = jobs[i].status)]_vars

C7_Witness ==
    \E i, k \in 1..Len(jobs) :
        /\ jobs[i].status = "ready"
        /\ jobs[k].status = "error"
        /\ jobs[i].completed_at < jobs[k].completed_at

\* C8: a job is running from before its worker opens the engine until the
\* worker finishes, and a job becomes ready only from running.
C8_RunningBeforeReady ==
    /\ [](\A w \in active : w.pc # "execute" =>
            \A j \in JobRows : j.job_id = w.job_id => j.status = "running")
    /\ [][\A i \in 1..Len(jobs) :
            (jobs[i].status # "ready" /\ jobs'[i].status = "ready")
            => jobs[i].status = "running"]_vars

\* C9: after a restart no job is pending or running without a work item
\* (queued or being run) that owns it.
C9_NoOrphanAfterRestart ==
    \A j \in JobRows :
        IsActive(j) =>
            \/ \E i \in 1..Len(queue) : queue[i].job_id = j.job_id
            \/ \E w \in active : w.job_id = j.job_id

\* C10: with no restart and fair scheduling of the workers, every created job
\* eventually is ready or error: whatever has been submitted, also more jobs
\* than the pool has workers, a moment comes at which every job created so
\* far is ready or error.
C10_EveryJobTerminates ==
    []<>(\A j \in JobRows : IsTerminal(j))

C10_Witness == Cardinality(active) = MAX_WORKERS /\ queue # <<>>

\* The rows of the jobs table with the given id (at most one: PRIMARY KEY).
RowsOf(job_id) == {jobs[i] : i \in {i \in 1..Len(jobs) : jobs[i].job_id = job_id}}

\* C11: when the fingerprint of the submitted SQL has jobs and every one of
\* them is in state error, a submit (whose uuid4 is an id not yet in the
\* table) appends one pending job carrying that new id, leaves the earlier
\* rows as they are, puts the job's work item at the tail of the pool's
\* queue and answers 200 pending with the new id.
C11_SubmitAfterErrorCreatesJob ==
    [][clock' # clock
       => \A raw \in SqlInputs, job_id \in uuid4 \ JobIds :
            LET sql == strip(raw)
                earlier == JobsOf(hash_query(sql))
            IN  (/\ earlier # {}
                 /\ \A j \in earlier : j.status = "error"
                 /\ submit_query_as(raw, job_id))
                => /\ Len(jobs') = Len(jobs) + 1
                   /\ SubSeq(jobs', 1, Len(jobs)) = jobs
                   /\ jobs'[Len(jobs')].job_id = job_id
                   /\ \A j \in JobRows : j.job_id # jobs'[Len(jobs')].job_id
                   /\ jobs'[Len(jobs')].status = "pending"
                   /\ jobs'[Len(jobs')].query_hash = hash_query(sql)
                   /\ queue' = Append(queue, [sql |-> sql, job_id |-> job_id])
                   /\ response' = Resp(200, "pending", "arrow", job_id)]_vars

\* A pending job created after every earlier job of its fingerprint had
\* ended in error.
C11_Witness ==
    \E k \in 2..Len(jobs) :
        /\ jobs[k].status = "pending"
        /\ \E i \in 1..(k - 1) : jobs[i].query_hash = jobs[k].query_hash
        /\ \A i \in 1..(k - 1) :
              jobs[i].query_hash = jobs[k].query_hash
              => /\ jobs[i].status = "error"
                 /\ jobs[i].completed_at < jobs[k].created_at

\* C12: GET /query/{id}/result answers 404 when no job has the id and 400
\* when the job is in any state other than ready; it returns a body only for
\* a ready job, and the body is the object at that job's artifact key.
C12_ResultOnlyWhenReady ==
    \A job_id \in JobIdInputs :
        LET r == get_query_result(job_id)
        IN  /\ RowsOf(job_id) = {} => r.code = 404 /\ r.body = <<>>
            /\ \A j \in RowsOf(job_id) :
                  /\ j.status # "ready" => r.code = 400 /\ r.body = <<>>
                  /\ r.body # <<>> => j.status = "ready" /\ r.body = <<s3[j.s3_key]>>

\* A job that is not ready although an object is at its artifact key is
\* refused with 400, next to a ready job whose artifact is returned.
C12_Witness ==
    /\ \E j \in JobRows : /\ j.status = "pending"
                          /\ j.s3_key \in DOMAIN s3
                          /\ get_query_result(j.job_id).code = 400
    /\ \E j \in JobRows : /\ j.status = "ready"
                          /\ get_query_result(j.job_id).code = 200
    /\ \E job_id \in JobIdInputs : get_query_result(job_id).code = 404

\* C13: GET /query/{id} answers 404 exactly for the ids no job row carries
\* (rows are never deleted, so: no job with that id has been created), and
\* otherwise 200 with the status and format recorded in the row and the id
\* asked for; the id a submit has returned is known.
C13_StatusReportsRegistry ==
    /\ \A job_id \in JobIdInputs :
          LET r == get_query_status(job_id)
          IN  /\ r.code = 404 <=> RowsOf(job_id) = {}
              /\ \A j \in RowsOf(job_id) : r = Resp(200, j.status, j.format, job_id)
    /\ response.code = 200 => get_query_status(response.job_id).code = 200

\* Jobs in three different states are each reported in their state, and a
\* fingerprint, which is no job id, is not found.
C13_Witness ==
    /\ \A st \in {"pending", "ready", "error"} :
          \E j \in JobRows : j.status = st /\ get_query_status(j.job_id).status = st
    /\ \E j \in JobRows : get_query_status(j.query_hash).code = 404

\* The row of the job a work item belongs to.
JobOf(w) == CHOOSE j \in JobRows : j.job_id = w.job_id
\* Position of a job in the order of creation, which is the order in which
\* submit_query handed the work items to the pool.
JobIndex(job_id) == CHOOSE i \in 1..Len(jobs) : jobs[i].job_id = job_id

\* C14: a work item whose conn.execute raised has uploaded nothing and its
\* job is not ready; no step makes that job ready or uploads for it; and
\* when the work item ends, the job is in state error, GET /query/{id}
\* reports error and the job has still uploaded nothing.
C14_EngineFailureEndsInError ==
    /\ [](\A w \in active :
            w.e = "execute" => /\ w.pc = "except"
                               /\ JobOf(w).status = "pending"
                               /\ w.job_id \notin uploaded)
    /\ [][\A w \in active :
            w.e = "execute"
            => /\ w.job_id \notin uploaded'
               /\ \A j \in RowsOf(w.job_id)' : j.status # "ready"
               /\ (\E f \in futures' \ futures : f.job_id = w.job_id)
                  => /\ \A j \in RowsOf(w.job_id)' : j.status = "error"
                     /\ get_query_status(w.job_id)' = Resp(200, "error", "arrow", w.job_id)
                     /\ get_query_result(w.job_id)'.code = 400]_vars

\* The engine has raised for one job, whose worker is in the except clause,
\* while an earlier job whose work item ended with an exception is in error.
C14_Witness ==
    \E w \in active :
        /\ w.pc = "except"
        /\ w.e = "execute"
        /\ \E f \in futures : /\ f.outcome = "raised"
                              /\ get_query_status(f.job_id).status = "error"
                              /\ f.job_id \notin uploaded

\* C15: no work item ends with an exception: the future of every work item
\* that has ended holds a return value, and the job of every work item that
\* failed is in state error.
C15_WorkItemNeverRaises ==
    \A f \in futures :
        /\ f.outcome = "returned"
        /\ \A j \in RowsOf(f.job_id) : IsTerminal(j)

\* C16: a submit (whose uuid4 is an id not yet in the table) that finds
\* every pool thread busy and the queue at its capacity is answered 503
\* (overloaded) and creates no job and no work item; a submit that finds the
\* pool idle and the queue empty is not answered 503.
C16_SubmitRejectedWhenSaturated ==
    [][\A raw \in SqlInputs, n \in 1..MaxBurst :
        (submit_query_as(raw, Uuid(n)) /\ Uuid(n) \notin JobIds)
        => /\ (Cardinality(active) = MAX_WORKERS /\ Len(queue) >= QueueCapacity)
              => /\ response'.code = 503
                 /\ jobs' = jobs
                 /\ queue' = queue
           /\ (active = {} /\ queue = <<>>) => response'.code # 503]_vars

\* C17: at no instant are more than MAX_WORKERS work items inside run_query.
C17_AtMostMaxWorkersExecuting == Cardinality(active) <= MAX_WORKERS

\* Every pool thread is inside run_query while further work items wait.
C17_Witness ==
    /\ Cardinality(active) = MAX_WORKERS
    /\ Len(queue) > 0
    /\ \A w \in active : w.pc = "execute"

\* C18: the queue holds the work items in the order of their submission,
\* and a work item that enters run_query was submitted before every work
\* item that is still waiting.
C18_StartInEnqueueOrder ==
    /\ [](\A i, k \in 1..Len(queue) :
            i < k => JobIndex(queue[i].job_id) < JobIndex(queue[k].job_id))
    /\ [][\A w \in active' :
            (\A v \in active : v.job_id # w.job_id)
            => \A i \in 1..Len(queue') : JobIndex(w.job_id) < JobIndex(queue'[i].job_id)]_vars

\* A work item has started while two later ones wait in their order.
C18_Witness ==
    /\ Len(queue) >= 2
    /\ \E w \in active : \A i \in 1..Len(queue) : JobIndex(w.job_id) < JobIndex(queue[i].job_id)

\* C19: once the grace period of a shutdown is over, no work item is
\* running or waiting and every job is terminal (those that were not have
\* been set to error).
C19_ShutdownEndsJobs ==
    shutdown \in {"overdue", "exited"}
    => /\ active = {}
       /\ queue = <<>>
       /\ \A j \in JobRows : IsTerminal(j)

\* C20: the bucket changes only in the step in which a worker completes
\* save_arrow_stream_to_s3, and then to the whole stream of that worker's
\* SQL at its key; so a save that fails leaves every key as it was, and
\* every object is the whole stream of a submitted SQL text.
C20_NoPartialArtifact ==
    /\ [](\A key \in DOMAIN s3 :
            \E q \in queries : /\ key = s3_key_for_query(q.sql, "arrow")
                                /\ s3[key] = ArrowStream(q.sql))
    /\ [][s3' # s3
          => \E w \in active :
                /\ w.pc = "save"
                /\ [w EXCEPT !.pc = "ready"] \in active'
                /\ s3' = save_arrow_stream_to_s3(s3_key_for_query(w.sql, "arrow"), w.sql)]_vars

\* Two saves have failed: one at a key that holds the object of an earlier
\* job, one at a key that holds nothing.
C20_Witness ==
    /\ \E w \in active : /\ w.pc = "except"
                         /\ w.e = "save"
                         /\ s3_key_for_query(w.sql, "arrow") \in DOMAIN s3
    /\ \E w \in active : /\ w.pc = "except"
                         /\ w.e = "save"
                         /\ s3_key_for_query(w.sql, "arrow") \notin DOMAIN s3

\* C21: no two workers are inside save_arrow_stream_to_s3 for the same
\* artifact key at the same instant.
C21_SingleWriterPerKey ==
    \A w1, w2 \in active :
        (/\ w1.pc = "save"
         /\ w2.pc = "save"
         /\ s3_key_for_query(w1.sql, "arrow") = s3_key_for_query(w2.sql, "arrow"))
        => w1 = w2

\* C22: no two rows of the jobs table carry the same job_id, and a row,
\* once written, stays in the table under its id, so that the id can never
\* be given to a later job.
C22_JobIdUniqueNeverReused ==
    /\ [](\A i, k \in 1..Len(jobs) : jobs[i].job_id = jobs[k].job_id => i = k)
    /\ [][/\ Len(jobs') >= Len(jobs)
          /\ \A i \in 1..Len(jobs) : jobs'[i].job_id = jobs[i].job_id]_vars

\* uuid4 has returned an id that is in the table: the submit was refused
\* and the rows are as they were.
C22_Witness ==
    /\ response.code = 500
    /\ Len(jobs) >= 2
    /\ Cardinality(JobIds) = Len(jobs)

\* C23: every ready job has a row_count and a file_size that are not NULL
\* (the row_count being the number of rows written, 0 or more).
C23_ReadyJobHasCounts ==
    \A j \in JobRows :
        j.status = "ready" => /\ j.row_count # NULL
                              /\ j.row_count >= 0
                              /\ j.file_size # NULL

\* C24: every job in state error carries an error code, which is
\* execution_failed or upload_failed; when a work item ends in the except
\* clause, the code recorded is the one of the statement that raised.
C24_ErrorCodeMatchesCause ==
    /\ [](\A j \in JobRows :
            j.status = "error" => /\ "error_code" \in DOMAIN j
                                  /\ j.error_code \in {"execution_failed", "upload_failed"})
    /\ [][\A w \in active :
            (w.pc = "except" /\ \E f \in futures' \ futures : f.job_id = w.job_id)
            => \A j \in RowsOf(w.job_id)' :
                  /\ "error_code" \in DOMAIN j
                  /\ j.error_code = (IF w.e = "execute" THEN "execution_failed"
                                                         ELSE "upload_failed")]_vars

\* C25: GET /query/{id}/schema answers 404 for an id no job has, 400 for a
\* job that is not ready, and 200 with the column list for a ready job.
C25_SchemaOfReadyJob ==
    \A job_id \in JobIdInputs :
        LET r == get_query_schema(job_id)
        IN  /\ RowsOf(job_id) = {} => r.code = 404
            /\ \A j \in RowsOf(job_id) :
                  /\ j.status # "ready" => r.code = 400
                  /\ j.status = "ready" => r.code = 200 /\ r.body # <<>>

\* C26: the object a completed save has put at the key is the schema
\* message of the reader's schema, then one batch message for each batch the
\* reader yielded, in the reader's order, then the end of the stream; and
\* reading it back as an IPC stream gives the schema and the rows of the
\* engine's result.
C26_ArtifactRoundTrip ==
    save.pc = "done"
    => /\ StreamKey \in DOMAIN s3
       /\ s3[StreamKey] = <<SchemaMessage(save.schema)>>
                           \o [i \in 1..Len(save.batches) |-> BatchMessage(save.batches[i])]
                           \o <<EndOfStream>>
       /\ stream_arrow_from_s3(StreamKey) = [schema |-> save.schema, rows |-> Concat(save.batches)]

\* A result of several different batches has been saved.
C26_Witness ==
    /\ save.pc = "done"
    /\ Len(save.batches) = MaxBatches
    /\ save.batches[1] # save.batches[2]
    /\ stream_arrow_from_s3(StreamKey).rows = Concat(save.batches)

\* Number of record batches a worker may hold that it has not yet handed to
\* the upload.
MaxHeldBatches == 1
\* The batches written to the in-memory buffer of the followed call.
HeldBatches == {i \in 1..Len(save.stream) : save.stream[i].type = "batch"}

\* C27: until the upload starts, the worker holds no more than a fixed
\* number of record batches, however many batches the result has.
C27_BoundedBuffering ==
    save.pc \in {"loop", "upload"} => Cardinality(HeldBatches) <= MaxHeldBatches

\* raw is core with whitespace, and nothing else, before and after it.
OuterTrimmed(raw, core) ==
    \E i \in 1..(Len(raw) + 1), k \in 0..Len(raw) :
        /\ core = SubSeq(raw, i, k)
        /\ \A n \in 1..Len(raw) : (n < i \/ n > k) => raw[n] = " "
\* The two texts differ only in leading or trailing whitespace.
SameButOuterWhitespace(a, b) ==
    \E i \in 1..(Len(a) + 1), k \in 0..Len(a) :
        /\ \A n \in 1..Len(a) : (n < i \/ n > k) => a[n] = " "
        /\ OuterTrimmed(b, SubSeq(a, i, k))

\* C28: the job a submit creates has the fingerprint and the artifact key
\* of exactly those earlier jobs whose SQL text differs from the submitted
\* one only in leading or trailing whitespace; every earlier job of a text
\* that differs elsewhere has another fingerprint, another key and is
\* another job.
C28_FingerprintIgnoresOuterWhitespaceOnly ==
    [][clock' # clock
       => \A raw \in SqlInputs, job_id \in uuid4 \ JobIds :
            submit_query_as(raw, job_id)
            => LET new == jobs'[Len(jobs')]
               IN  \A q \in queries :
                     LET same == SameButOuterWhitespace(raw, q.sql)
                     IN  \A j \in JobsOf(q.query_hash) :
                           IF same
                           THEN new.query_hash = j.query_hash /\ new.s3_key = j.s3_key
                           ELSE /\ new.query_hash # j.query_hash
                                /\ new.s3_key # j.s3_key
                                /\ new.job_id # j.job_id]_vars

\* Three jobs: two share fingerprint and key, the third has its own.
C28_Witness ==
    \E i, k, m \in 1..Len(jobs) :
        /\ i # k
        /\ jobs[i].query_hash = jobs[k].query_hash
        /\ jobs[i].s3_key = jobs[k].s3_key
        /\ jobs[m].query_hash # jobs[i].query_hash
        /\ jobs[m].s3_key # jobs[i].s3_key
        /\ Cardinality(queries) = 2

\* C29: the key in a job's row is made of the row's fingerprint and format
\* alone; the key the job's work item uploads to and the key the result
\* handler reads for the job are that key, and the upload of a job changes
\* the bucket at that key only.
C29_OneArtifactKeyPerJob ==
    /\ [](/\ \A j \in JobRows :
              /\ j.s3_key = S3_BUCKET \o <<"/">> \o j.query_hash \o <<".", j.format>>
              /\ \A r \in get_job(j.job_id) : s3_key_for_query(r.sql, j.format) = j.s3_key
           /\ \A w \in active : s3_key_for_query(w.sql, "arrow") = JobOf(w).s3_key
           /\ \A i \in 1..Len(queue) :
                 s3_key_for_query(queue[i].sql, "arrow") = JobOf(queue[i]).s3_key)
    /\ [][\A w \in active :
            (uploaded' # uploaded /\ w.job_id \in uploaded' \ uploaded)
            => /\ JobOf(w).s3_key \in DOMAIN s3'
               /\ \A key \in DOMAIN s3' :
                     key # JobOf(w).s3_key => key \in DOMAIN s3 /\ s3'[key] = s3[key]]_vars

\* A ready job whose worker has uploaded and whose result is read from the
\* key in its row, next to the object of another key.
C29_Witness ==
    /\ \E j \in JobRows :
          /\ j.status = "ready"
          /\ j.job_id \in uploaded
          /\ get_query_result(j.job_id).body = <<s3[j.s3_key]>>
    /\ Cardinality(DOMAIN s3) = 2

\* C30: no step removes or changes a row of the queries table, no two rows
\* carry the same fingerprint, and insert_query returns the fingerprint of
\* its SQL text, whose row it creates only if there is none.
C30_QueryRowInsertedOnce ==
    /\ [](\A q1, q2 \in queries : q1.query_hash = q2.query_hash => q1 = q2)
    /\ [][/\ \A q \in queries : q \in queries'
          /\ \A sql \in SqlInputs :
                InsertQuery(sql)
                => /\ response'.body = <<hash_query(sql)>>
                   /\ \E q \in queries' : q.query_hash = hash_query(sql) /\ q.sql = sql
                   /\ (\E q \in queries : q.query_hash = hash_query(sql)) => queries' = queries]_vars

\* insert_query has returned a fingerprint whose row is older than the call,
\* and two jobs share a query row as old as the first of them.
C30_Witness ==
    /\ \E q \in queries : response.body = <<q.query_hash>> /\ q.created_at < clock
    /\ \E i, k \in 1..Len(jobs) : \E q \in queries :
          /\ i < k
          /\ jobs[i].query_hash = q.query_hash
          /\ jobs[k].query_hash = q.query_hash
          /\ q.created_at <= jobs[i].created_at

\* The threads that are inside the with self._lock block of a registry
\* operation.
InCriticalSection == {t \in Threads : lock.thread[t].pc = "inside"}

\* C31: at any instant at most one thread, request handler or worker, is
\* inside the critical section of a registry operation.
C31_OneThreadInCriticalSection == Cardinality(InCriticalSection) <= 1

\* The number of work items of a job: queued in the executor or run by a
\* pool thread.
WorkItemsOf(job_id) ==
    Cardinality({i \in 1..Len(queue) : queue[i].job_id = job_id})
    + Cardinality({w \in active : w.job_id = job_id})

\* C32: with requests cancelled at any point where they can be, every job
\* that is not ready or error has a work item; the cancellation changes
\* neither the registry nor the pool nor the bucket; and again and again
\* every job created so far is ready or error.
C32_CancelDoesNotAffectJob ==
    /\ [](\A j \in JobRows : ~IsTerminal(j) => WorkItemsOf(j.job_id) > 0)
    /\ [][(response' = NoResponse /\ response # NoResponse)
           => UNCHANGED <<jobs, queries, s3, queue, active, futures, executor, gauges, client, discovery>>]_vars
    /\ []<>(\A j \in JobRows : IsTerminal(j))

\* The response to a submit did not arrive, its job is pending and its work
\* item waits behind the busy pool.
C32_Witness ==
    /\ response = NoResponse
    /\ Cardinality(active) = MAX_WORKERS
    /\ \E i \in 1..Len(queue) : JobOf(queue[i]).status = "pending"

\* C35: a request that has been handled leaves the active-workers gauge at
\* the number of work items a pool thread is executing and the queue-depth
\* gauge at the number of work items that wait in the executor.
C35_GaugesMatchPool ==
    [][(gauges' # gauges \/ clock' # clock)
       => /\ gauges'.ACTIVE_THREADS = Cardinality(active')
          /\ gauges'.QUEUE_DEPTH = Len(queue')]_vars

\* C33: a step that is neither a submit nor a step of the pool, which is
\* to say the handling of a status or result request, changes no row of the
\* registry and nothing in the bucket; and a result request whose read of
\* the bucket fails leaves its job ready.
C33_ReadsChangeNoJob ==
    /\ [][(clock' = clock /\ queue' = queue /\ active' = active)
           => (jobs' = jobs /\ queries' = queries /\ s3' = s3)]_vars
    /\ [][\A job_id \in JobIdInputs :
             GetResultRaise(job_id)
             => /\ response'.code = 500
                /\ RowsOf(job_id)' # {}
                /\ \A j \in RowsOf(job_id)' : j.status = "ready"]_vars

\* The read of the bucket has failed for a ready job (every submit so far
\* has created its job, so the 500 is not a submit's), and the job is ready.
C33_Witness ==
    /\ response.code = 500
    /\ Len(jobs) = clock
    /\ Len(jobs) = MaxReadRequests
    /\ \A j \in JobRows : j.status = "ready" /\ j.s3_key \in DOMAIN s3

\* C34: no step removes a job row; a step that changes the row of a job is
\* the last step of the work item of that job_id (the pool thread that runs
\* it is at its update_job_status and is through after the step); the step
\* changes no other row, and in the row it changes job_id, fingerprint,
\* format, created_at and artifact key stay as they were.
C34_RowChangedOnlyByItsWorker ==
    [][jobs' # jobs
       => /\ Len(jobs') >= Len(jobs)
          /\ \A i \in 1..Len(jobs) :
                jobs'[i] # jobs[i]
                => /\ \E w \in active \ active' :
                         w.job_id = jobs[i].job_id /\ w.pc \in {"ready", "except"}
                   /\ \A k \in 1..Len(jobs) : k # i => jobs'[k] = jobs[k]
                   /\ jobs'[i].job_id = jobs[i].job_id
                   /\ jobs'[i].query_hash = jobs[i].query_hash
                   /\ jobs'[i].format = jobs[i].format
                   /\ jobs'[i].created_at = jobs[i].created_at
                   /\ jobs'[i].s3_key = jobs[i].s3_key]_vars

\* The worker of one job has updated its row while another job of the same
\* fingerprint, created earlier, is still pending in its row.
C34_Witness ==
    \E i, k \in 1..Len(jobs) :
        /\ i < k
        /\ jobs[i].query_hash = jobs[k].query_hash
        /\ jobs[i].status = "pending"
        /\ IsTerminal(jobs[k])
        /\ jobs[k].completed_at > jobs[k].created_at

\* C39: the client's get_query_result, given the artifact the worker has
\* written for a result, returns the table of that result: its schema and
\* the rows of its batches in order.
C39_ClientDecodesArtifact ==
    save.pc = "done"
    => read_result(s3[StreamKey])
         = [raised |-> "", schema |-> save.schema, rows |-> Concat(save.batches)]

\* C36: wait_for_query has polled the status before it does anything else;
\* it requests the result only having seen ready; having seen error it has
\* raised; it raises TimeoutError only with the timeout exceeded and the job
\* last seen neither ready nor error, and does so at the first test of the
\* time after the timeout is exceeded; and every call ends.
C36_WaitForQueryEnds ==
    /\ [](/\ client.pc \in {"check", "sleep", "result", "done"} => client.polls >= 1
          /\ (client.pc = "result" \/ client.requested) => client.status = "ready"
          /\ client.status = "error" => (client.pc = "done" /\ client.outcome = "Exception")
          /\ client.outcome = "TimeoutError"
               => /\ client.elapsed > Timeout
                  /\ client.status \notin {"ready", "error"}
                  /\ ~client.requested)
    /\ [][(client.pc = "check" /\ client.elapsed > Timeout /\ client' # client)
           => client'.outcome = "TimeoutError"]_vars
    /\ []<>(client.pc \in {"idle", "done"})

\* The call has timed out on a job whose work item never ran; it polled
\* more than once.
C36_Witness ==
    /\ client.outcome = "TimeoutError"
    /\ client.polls > 1
    /\ \E j \in JobRows : j.job_id = client.job_id /\ j.status = "pending"

\* C37: a submit that creates a job hands exactly one work item for it to
\* the pool; at no time do two work items, waiting or running, carry the
\* same job_id; a job that is ready or error, or whose work item has ended,
\* has none; and the work item a pool thread starts is one that waited, for
\* a job that has not been run.
C37_OneWorkItemPerJob ==
    /\ [](/\ \A i, k \in 1..Len(queue) : queue[i].job_id = queue[k].job_id => i = k
          /\ \A w, v \in active : w.job_id = v.job_id => w = v
          /\ \A w \in active : \A i \in 1..Len(queue) : queue[i].job_id # w.job_id
          /\ \A j \in JobRows : IsTerminal(j) => WorkItemsOf(j.job_id) = 0
          /\ \A f \in futures : WorkItemsOf(f.job_id) = 0)
    /\ [][Len(jobs') > Len(jobs)
           => LET new == jobs'[Len(jobs')].job_id
              IN  /\ Len(jobs') = Len(jobs) + 1
                  /\ Cardinality({i \in 1..Len(queue') : queue'[i].job_id = new}) = 1
                  /\ \A w \in active' : w.job_id # new
                  /\ queue' = Append(queue, [sql |-> queue'[Len(queue')].sql, job_id |-> new])]_vars
    /\ [][active' # active
           => \A w \in active' :
                (\A v \in active : v.job_id # w.job_id)
                => /\ queue # <<>>
                   /\ Head(queue).job_id = w.job_id
                   /\ queue' = Tail(queue)
                   /\ w.pc = "execute"
                   /\ JobOf(w).status = "pending"]_vars

\* Three jobs of one fingerprint, submitted one after the other: the work
\* item of the first has ended, that of the second is running and that of
\* the third waits.
C37_Witness ==
    \E f \in futures, w \in active :
        /\ Len(queue) = 1
        /\ JobOf(f).query_hash = JobOf(w).query_hash
        /\ JobOf(w).query_hash = JobOf(queue[1]).query_hash
        /\ JobIndex(f.job_id) < JobIndex(w.job_id)

\* C38: every job row has exactly one row of the queries table with its
\* fingerprint, in the state in which the row appears and ever after, and
\* get_job with the id of the row returns that row joined with the SQL of
\* that query row.
C38_JobHasQueryRow ==
    \A i \in 1..Len(jobs) :
        LET of_job == {q \in queries : q.query_hash = jobs[i].query_hash}
        IN  /\ Cardinality(of_job) = 1
            /\ \A q \in of_job :
                  /\ hash_query(q.sql) = jobs[i].query_hash
                  /\ q.created_at <= jobs[i].created_at
                  /\ get_job(jobs[i].job_id) = {[job |-> jobs[i], sql |-> q.sql]}

\* Two jobs share the query row the first of them has inserted, and a third
\* job has a query row of its own.
C38_Witness ==
    /\ Cardinality(queries) = 2
    /\ \E i, k, m \in 1..Len(jobs) :
          /\ i < k
          /\ jobs[i].query_hash = jobs[k].query_hash
          /\ jobs[m].query_hash # jobs[i].query_hash
          /\ \E q \in queries : /\ q.query_hash = jobs[k].query_hash
                                 /\ q.created_at = jobs[i].created_at
                                 /\ q.created_at < jobs[k].created_at

\* C40: once start() has returned and until stop() is called, the discovery
\* thread is alive and its stop event is clear, so the loop goes on scanning;
\* this also after a stop() whose join timed out.
C40_StartedLoopKeepsScanning ==
    discovery.started => /\ is_alive
                         /\ ~discovery.stop_event

====
